---- MODULE Spec2Model ----
(***************************************************************************)
(* Model of the browser loader of ascii-bomb-ecs-mp (web/index.js and the  *)
(* lobby page index.html): the lobby form, the startGame handler that      *)
(* validates it and calls into the wasm runtime, and start_wasm, which     *)
(* instantiates the runtime and maps the signals raised by run() to the    *)
(* error screen.                                                           *)
(*                                                                         *)
(* JavaScript strings are sequences of one-character strings, so that      *)
(* trim, parseInt, the room-id regular expression and String.includes are  *)
(* computed character by character.  A JavaScript number is a record       *)
(* [nan, val]: NaN has nan = TRUE.                                         *)
(***************************************************************************)
EXTENDS Integers, Sequences, FiniteSets, TLC

\* Largest whole number typed into the player-count field.
MaxTyped == 10

\* ------------------------------------------------------------------------
\* JavaScript values and built-ins used by index.js
\* ------------------------------------------------------------------------

Digits == <<"0", "1", "2", "3", "4", "5", "6", "7", "8", "9">>

DigitSet == {Digits[i] : i \in DOMAIN Digits}

DigitValue(c) == (CHOOSE i \in DOMAIN Digits : Digits[i] = c) - 1

WhiteSpace == {" ", "\t", "\n"}

Num(v) == [nan |-> FALSE, val |-> v]

NaN == [nan |-> TRUE, val |-> 0]

\* a < b and a > b on JavaScript numbers: every comparison with NaN is false
Lt(a, b) == ~a.nan /\ ~b.nan /\ a.val < b.val

Gt(a, b) == ~a.nan /\ ~b.nan /\ a.val > b.val

RECURSIVE TrimStart(_)
TrimStart(s) ==
    IF s # <<>> /\ Head(s) \in WhiteSpace THEN TrimStart(Tail(s)) ELSE s

RECURSIVE TrimEnd(_)
TrimEnd(s) ==
    IF s # <<>> /\ s[Len(s)] \in WhiteSpace
    THEN TrimEnd(SubSeq(s, 1, Len(s) - 1))
    ELSE s

\* String.prototype.trim
trim(s) == TrimEnd(TrimStart(s))

RECURSIVE ParseDigits(_, _, _)
ParseDigits(s, acc, seen) ==
    IF s # <<>> /\ Head(s) \in DigitSet
    THEN ParseDigits(Tail(s), acc * 10 + DigitValue(Head(s)), TRUE)
    ELSE IF seen THEN Num(acc) ELSE NaN

\* parseInt(s) in radix 10: leading white space is skipped, one sign is
\* read, then the longest prefix of digits; no digit at all gives NaN.
parseInt(s) ==
    LET t == TrimStart(s)
        neg == t # <<>> /\ Head(t) = "-"
        u == IF t # <<>> /\ Head(t) \in {"-", "+"} THEN Tail(t) ELSE t
        n == ParseDigits(u, 0, FALSE)
    IN  IF n.nan THEN NaN ELSE Num(IF neg THEN 0 - n.val ELSE n.val)

\* String.prototype.includes
includes(s, sub) ==
    \E i \in 0..(Len(s) - Len(sub)) : SubSeq(s, i + 1, i + Len(sub)) = sub

RECURSIVE Decimal(_)
Decimal(n) ==
    IF n < 10 THEN <<Digits[n + 1]>>
    ELSE Decimal(n \div 10) \o <<Digits[(n % 10) + 1]>>

\* ------------------------------------------------------------------------
\* Literals of index.js
\* ------------------------------------------------------------------------

MinPlayers == 2

MaxPlayers == 8

RoomIdDigits == 4

PlayerCountMsg == "Please enter a player count between 2 and 8."

RoomIdMsg == "Invalid room ID."

MatchboxMsg == "Please enter a Matchbox server URL."

IceMsg == "Please enter a STUN/TURN server URL."

QuickJoin == <<"q", "u", "i", "c", "k", "_", "j", "o", "i", "n">>

NotAnErrorMarker ==
    <<"T", "h", "i", "s", " ", "i", "s", "n", "'", "t", " ", "a", "c", "t",
      "u", "a", "l", "l", "y", " ", "a", "n", " ", "e", "r", "r", "o", "r",
      "!">>

\* ------------------------------------------------------------------------
\* What the user can put into the lobby form (index.html)
\* ------------------------------------------------------------------------

\* numberInput (type=number): empty, a whole number, a negative or a
\* decimal number.
NumberInputs ==
    {<<>>, <<"-", "1">>, <<"2", ".", "5">>}
        \cup {Decimal(n) : n \in 0..MaxTyped}

\* roomID (type=text).  maxlength=4 limits typing, not a value set by a
\* script or by autofill, hence the five-character value.
RoomIdInputs ==
    {<<>>, <<" ">>, <<"1", "2", "3", "4">>, <<"1", "2", "a", "4">>,
     <<"1", "2", "3">>, <<" ", "1", "2", "3">>, <<"1", "2", "3", "4", "5">>}

UrlInputs == {<<>>, <<" ">>, <<"w", "s", " ">>}

UsernameInputs == {<<>>, <<" ", "u">>}

CredentialInputs == {<<>>, <<"p">>}

\* The form as the page is served: value="2", every text field empty,
\* both checkboxes unchecked.
InitialForm ==
    [numberInput |-> <<"2">>,
     roomID |-> <<>>,
     customMatchboxServerCheckbox |-> FALSE,
     matchboxServerURL |-> <<>>,
     customICEServerCheckbox |-> FALSE,
     iceServerURL |-> <<>>,
     iceServerUsername |-> <<>>,
     iceServerCredential |-> <<>>]

\* The elements of index.html that index.js removes or reveals.
InitialDom ==
    [buttonBox |-> "present",
     gameContainer |-> "hidden",
     controls |-> "present",
     errorScreen |-> "hidden"]

VARIABLES
    form,            \* values of the lobby form's fields
    dom,             \* button-box, game-container, controls, error-screen
    isTouchDevice,   \* 'ontouchstart' in document.documentElement
    wasm_loaded,     \* the module's loaded flag
    start_wasm_pc,   \* "await_init", "done" or "rejected" (promise rejected)
    runSignal,       \* what run() did: NotCalled, or an outcome of RunOutcomes
    consoleErrors,   \* values passed to console.error
    consoleLog,      \* lines passed to console.log
    startGameCalls,  \* calls of start_game: [args, form read, loaded flag]
    alerts,          \* messages alert() showed during the last handler
    lastHandler,     \* "load", "edit", "startGame", "start_wasm" or
                     \* "setInputActive"
    threw,           \* the last handler ended with an uncaught TypeError
    inputsPassed,    \* codes passed to setInputActive, in call order
    set_input_active_calls  \* codes passed on to set_input_active

vars ==
    <<form, dom, isTouchDevice, wasm_loaded, start_wasm_pc, runSignal,
      consoleErrors, consoleLog, startGameCalls, alerts, lastHandler, threw,
      inputsPassed, set_input_active_calls>>

\* What setInputActive writes; no other handler reads or writes it.
inputVars == <<inputsPassed, set_input_active_calls>>


\* ------------------------------------------------------------------------
\* startGame (index.js, lines 148-239)
\* ------------------------------------------------------------------------

\* Faulty variant of PlayerCountOutOfRange: the upper comparison is >=.
PlayerCountOutOfRange_UpperInclusive(n) ==
    Lt(n, Num(MinPlayers)) \/ ~Lt(n, Num(MaxPlayers))

\* if (number_of_players < 2 || number_of_players > 8)
PlayerCountOutOfRange(n) ==
    Lt(n, Num(MinPlayers)) \/ Gt(n, Num(MaxPlayers))

\* Faulty variant of RoomIdPattern: the pattern without its $ anchor.
RoomIdPattern_Unanchored(r) ==
    Len(r) >= RoomIdDigits /\ \A i \in 1..RoomIdDigits : r[i] \in DigitSet

\* /^([0-9]{4})$/.test(r)
RoomIdPattern(r) ==
    Len(r) = RoomIdDigits /\ \A i \in DOMAIN r : r[i] \in DigitSet

\* Faulty variant of IsBlank: the comparison without trim().
IsBlank_NoTrim(s) == s = <<>>

\* s.trim() === ""
IsBlank(s) == trim(s) = <<>>

\* room_id after lines 164-171, for a value that passed the check
RoomIdForwarded(r) == IF ~IsBlank(r) THEN r ELSE QuickJoin

\* Faulty variant of MatchboxServerUrl: the field is read whatever the
\* checkbox says.
MatchboxServerUrl_Unconditional(f) == f.matchboxServerURL

\* matchbox_server_url: "" unless the checkbox is checked
MatchboxServerUrl(f) ==
    IF f.customMatchboxServerCheckbox THEN f.matchboxServerURL ELSE <<>>

\* <<ice_server_url, turn_server_username, turn_server_credential>>: ""
\* unless the checkbox is checked
IceServerSettings(f) ==
    IF f.customICEServerCheckbox
    THEN <<f.iceServerURL, f.iceServerUsername, f.iceServerCredential>>
    ELSE <<<<>>, <<>>, <<>>>>

Reject(msg) == [alert |-> <<msg>>, args |-> <<>>]

\* Faulty variant of StartGameChecks: the room id is checked before the
\* player count.
StartGameChecks_RoomIdFirst(f) ==
    LET number_of_players == parseInt(f.numberInput)
        matchbox_server_url == MatchboxServerUrl(f)
        ice == IceServerSettings(f)
    IN  IF ~IsBlank(f.roomID) /\ ~RoomIdPattern(f.roomID)
        THEN Reject(RoomIdMsg)
        ELSE IF PlayerCountOutOfRange(number_of_players)
        THEN Reject(PlayerCountMsg)
        ELSE IF f.customMatchboxServerCheckbox /\ IsBlank(matchbox_server_url)
        THEN Reject(MatchboxMsg)
        ELSE IF f.customICEServerCheckbox /\ IsBlank(ice[1])
        THEN Reject(IceMsg)
        ELSE [alert |-> <<>>,
              args |-> <<number_of_players, RoomIdForwarded(f.roomID),
                         matchbox_server_url, ice[1], ice[2], ice[3]>>]

\* The four checks of startGame in the order of the code.  The result is
\* the alert shown (at most one) and, when no check fails, the arguments
\* of start_game in the order of the call on line 238.
StartGameChecks(f) ==
    LET number_of_players == parseInt(f.numberInput)
        matchbox_server_url == MatchboxServerUrl(f)
        ice == IceServerSettings(f)
    IN  IF PlayerCountOutOfRange(number_of_players)
        THEN Reject(PlayerCountMsg)
        ELSE IF ~IsBlank(f.roomID) /\ ~RoomIdPattern(f.roomID)
        THEN Reject(RoomIdMsg)
        ELSE IF f.customMatchboxServerCheckbox /\ IsBlank(matchbox_server_url)
        THEN Reject(MatchboxMsg)
        ELSE IF f.customICEServerCheckbox /\ IsBlank(ice[1])
        THEN Reject(IceMsg)
        ELSE [alert |-> <<>>,
              args |-> <<number_of_players, RoomIdForwarded(f.roomID),
                         matchbox_server_url, ice[1], ice[2], ice[3]>>]

\* console.log calls of lines 195-204
LogLines(f, args) ==
    <<<<"Number of players: ", args[1]>>, <<"Room ID: ", args[2]>>>>
        \o (IF f.customMatchboxServerCheckbox
            THEN <<<<"Matchbox server URL: ", args[3]>>>>
            ELSE <<>>)
        \o (IF f.customICEServerCheckbox
            THEN <<<<"STUN/TURN server URL: ", args[4]>>,
                   <<"TURN server username: ", args[5]>>,
                   <<"TURN server credential: ", args[6]>>>>
            ELSE <<>>)

\* Faulty variant of DomAfterStartGame: the game container is revealed
\* before the checks run.
DomAfterStartGame_RevealFirst(d, rejected, touch) ==
    IF rejected THEN [d EXCEPT !.gameContainer = "shown"]
    ELSE [d EXCEPT !.buttonBox = "removed",
                   !.gameContainer = "shown",
                   !.controls = IF touch THEN @ ELSE "removed"]

\* Faulty variant of DomAfterStartGame: button-box is left in the document
\* when the game is revealed.
DomAfterStartGame_KeepsLobby(d, rejected, touch) ==
    IF rejected THEN d
    ELSE [d EXCEPT !.gameContainer = "shown",
                   !.controls = IF touch THEN @ ELSE "removed"]

\* The page after startGame: unchanged when a check rejected; otherwise
\* button-box is removed, game-container revealed and, on a device without
\* touch, the on-screen controls removed (lines 206-233).
DomAfterStartGame(d, rejected, touch) ==
    IF rejected THEN d
    ELSE [d EXCEPT !.buttonBox = "removed",
                   !.gameContainer = "shown",
                   !.controls = IF touch THEN @ ELSE "removed"]

\* The form once button-box has left the document: its fields are gone.
RemovedForm == [InitialForm EXCEPT !.numberInput = <<>>]

FormAfterStartGame(f, rejected) == IF rejected THEN f ELSE RemovedForm

\* onclick="startGame()".  With button-box removed, line 149 reads .value
\* of null and the handler ends with a TypeError.
startGame ==
    /\ lastHandler' = "startGame"
    /\ IF dom.buttonBox # "present"
       THEN /\ threw' = TRUE
            /\ alerts' = <<>>
            /\ UNCHANGED <<form, dom, consoleLog, startGameCalls>>
       ELSE LET r == StartGameChecks(form)
                rejected == r.alert # <<>>
            IN  /\ threw' = FALSE
                /\ alerts' = r.alert
                /\ dom' = DomAfterStartGame(dom, rejected, isTouchDevice)
                /\ form' = FormAfterStartGame(form, rejected)
                /\ consoleLog' =
                       IF rejected THEN consoleLog
                       ELSE consoleLog \o LogLines(form, r.args)
                /\ startGameCalls' =
                       IF rejected THEN startGameCalls
                       ELSE Append(startGameCalls,
                                   [args |-> r.args,
                                    form |-> form,
                                    loaded |-> wasm_loaded])
    /\ UNCHANGED <<isTouchDevice, wasm_loaded, start_wasm_pc, runSignal,
                   consoleErrors, inputVars>>

\* ------------------------------------------------------------------------
\* The user edits the lobby form (possible while button-box is present)
\* ------------------------------------------------------------------------

Edit(field, value) ==
    /\ dom.buttonBox = "present"
    /\ form[field] # value
    /\ form' = [form EXCEPT ![field] = value]
    /\ lastHandler' = "edit"
    /\ alerts' = <<>>
    /\ threw' = FALSE
    /\ UNCHANGED <<dom, isTouchDevice, wasm_loaded, start_wasm_pc, runSignal,
                   consoleErrors, consoleLog, startGameCalls, inputVars>>

EditNumberInput == \E v \in NumberInputs : Edit("numberInput", v)

EditRoomID == \E v \in RoomIdInputs : Edit("roomID", v)

EditMatchboxServerURL == \E v \in UrlInputs : Edit("matchboxServerURL", v)

EditIceServerURL == \E v \in UrlInputs : Edit("iceServerURL", v)

EditIceServerUsername ==
    \E v \in UsernameInputs : Edit("iceServerUsername", v)

EditIceServerCredential ==
    \E v \in CredentialInputs : Edit("iceServerCredential", v)

\* A click on the checkbox flips it and runs the toggle handler, which
\* only shows or hides the settings panel.
toggleCustomMatchboxServerSettings ==
    Edit("customMatchboxServerCheckbox", ~form.customMatchboxServerCheckbox)

toggleCustomICEServerSettings ==
    Edit("customICEServerCheckbox", ~form.customICEServerCheckbox)

\* ------------------------------------------------------------------------
\* start_wasm (index.js, lines 3-20)
\* ------------------------------------------------------------------------

NotCalled ==
    [called |-> FALSE, raised |-> FALSE, hasMessage |-> FALSE,
     message |-> <<>>]

Returned == [NotCalled EXCEPT !.called = TRUE]

Throw(msg) ==
    [called |-> TRUE, raised |-> TRUE, hasMessage |-> TRUE, message |-> msg]

\* a thrown value whose .message is undefined (a string, a plain object)
ThrowNoMessage ==
    [called |-> TRUE, raised |-> TRUE, hasMessage |-> FALSE,
     message |-> <<>>]

\* What run() can do: return, raise winit's control-flow exception, raise
\* an error with a message (a wasm trap), raise a value without a message.
RunOutcomes ==
    {Returned,
     Throw(<<"w", "i", "n", "i", "t", ":", " ">> \o NotAnErrorMarker),
     Throw(<<"u", "n", "r", "e", "a", "c", "h", "a", "b", "l", "e">>),
     ThrowNoMessage}

\* Faulty variant of IsReported: the message is compared, not searched.
IsReported_ExactMatch(e) == e.message # NotAnErrorMarker

\* !e.message.includes("This isn't actually an error!")
IsReported(e) == ~includes(e.message, NotAnErrorMarker)

\* Faulty variant of CatchBlock: a missing button-box is skipped instead of
\* ending the block, so the error view replaces a game already shown.
CatchBlock_SkipsMissingLobby(e, d, errs) ==
    IF ~e.hasMessage
    THEN [dom |-> d, errors |-> errs, typeError |-> TRUE]
    ELSE IF ~IsReported(e)
    THEN [dom |-> d, errors |-> errs, typeError |-> FALSE]
    ELSE [dom |-> [d EXCEPT !.buttonBox = "removed",
                            !.gameContainer = "removed",
                            !.controls = "removed",
                            !.errorScreen = "shown"],
          errors |-> Append(errs, e),
          typeError |-> FALSE]

\* The catch block of start_wasm for the raised value e on page d with
\* console.error log errs: the page, the log and whether the block itself
\* ended with a TypeError (e.message undefined on line 12, or button-box
\* already gone on line 14).
CatchBlock(e, d, errs) ==
    IF ~e.hasMessage
    THEN [dom |-> d, errors |-> errs, typeError |-> TRUE]
    ELSE IF ~IsReported(e)
    THEN [dom |-> d, errors |-> errs, typeError |-> FALSE]
    ELSE IF d.buttonBox # "present"
    THEN [dom |-> d, errors |-> Append(errs, e), typeError |-> TRUE]
    ELSE [dom |-> [d EXCEPT !.buttonBox = "removed",
                            !.gameContainer = "removed",
                            !.controls = "removed",
                            !.errorScreen = "shown"],
          errors |-> Append(errs, e),
          typeError |-> FALSE]

\* Faulty variant of start_wasm: run() is called but the loaded flag is
\* never set.
start_wasm_FlagNeverSet ==
    /\ start_wasm_pc = "await_init"
    /\ wasm_loaded' = wasm_loaded
    /\ lastHandler' = "start_wasm"
    /\ alerts' = <<>>
    /\ \E e \in RunOutcomes :
          /\ runSignal' = e
          /\ IF ~e.raised
             THEN /\ start_wasm_pc' = "done"
                  /\ threw' = FALSE
                  /\ UNCHANGED <<form, dom, consoleErrors>>
             ELSE LET c == CatchBlock(e, dom, consoleErrors)
                  IN  /\ dom' = c.dom
                      /\ form' = IF c.dom.buttonBox = "present"
                                 THEN form ELSE RemovedForm
                      /\ consoleErrors' = c.errors
                      /\ threw' = c.typeError
                      /\ start_wasm_pc' =
                             IF c.typeError THEN "rejected" ELSE "done"
    /\ UNCHANGED <<isTouchDevice, consoleLog, startGameCalls, inputVars>>

\* init() resolves: the flag is set and run() is called inside the try.
start_wasm ==
    /\ start_wasm_pc = "await_init"
    /\ wasm_loaded' = TRUE
    /\ lastHandler' = "start_wasm"
    /\ alerts' = <<>>
    /\ \E e \in RunOutcomes :
          /\ runSignal' = e
          /\ IF ~e.raised
             THEN /\ start_wasm_pc' = "done"
                  /\ threw' = FALSE
                  /\ UNCHANGED <<form, dom, consoleErrors>>
             ELSE LET c == CatchBlock(e, dom, consoleErrors)
                  IN  /\ dom' = c.dom
                      /\ form' = IF c.dom.buttonBox = "present"
                                 THEN form ELSE RemovedForm
                      /\ consoleErrors' = c.errors
                      /\ threw' = c.typeError
                      /\ start_wasm_pc' =
                             IF c.typeError THEN "rejected" ELSE "done"
    /\ UNCHANGED <<isTouchDevice, consoleLog, startGameCalls, inputVars>>

\* init() rejects (the module cannot be fetched or instantiated): the
\* await on line 5 throws and nothing after it runs.
InitRejects ==
    /\ start_wasm_pc = "await_init"
    /\ start_wasm_pc' = "rejected"
    /\ lastHandler' = "start_wasm"
    /\ alerts' = <<>>
    /\ threw' = TRUE
    /\ UNCHANGED <<form, dom, isTouchDevice, wasm_loaded, runSignal,
                   consoleErrors, consoleLog, startGameCalls, inputVars>>

\* ------------------------------------------------------------------------
\* The page after the module script has run: start_wasm() is suspended at
\* await init() and the handlers are registered on window.
\* ------------------------------------------------------------------------

Init ==
    /\ form = InitialForm
    /\ dom = InitialDom
    /\ isTouchDevice \in BOOLEAN
    /\ wasm_loaded = FALSE
    /\ start_wasm_pc = "await_init"
    /\ runSignal = NotCalled
    /\ consoleErrors = <<>>
    /\ consoleLog = <<>>
    /\ startGameCalls = <<>>
    /\ alerts = <<>>
    /\ lastHandler = "load"
    /\ threw = FALSE
    /\ inputsPassed = <<>>
    /\ set_input_active_calls = <<>>

Next ==
    \/ startGame
    \/ EditNumberInput
    \/ EditRoomID
    \/ toggleCustomMatchboxServerSettings
    \/ EditMatchboxServerURL
    \/ toggleCustomICEServerSettings
    \/ EditIceServerURL
    \/ EditIceServerUsername
    \/ EditIceServerCredential
    \/ start_wasm
    \/ InitRejects

Spec == Init /\ [][Next]_vars

\* ------------------------------------------------------------------------
\* setInputActive (index.js, lines 242-245) and the on-screen controls
\* ------------------------------------------------------------------------

\* Longest sequence of setInputActive calls explored.
MaxInputs == 3

\* onpointerdown="setInputActive(0)", (2), (4), (3), (1) of the controls
ButtonCodes == {0, 2, 4, 3, 1}

\* window.setInputActive takes any number: a code no button sends and a
\* negative one stand for the rest.
InputCodes == ButtonCodes \cup {8, -1}

\* Faulty variant of Forwarded: codes no button sends are dropped.
Forwarded_RangeChecked(input) ==
    IF input \in ButtonCodes THEN <<input>> ELSE <<>>

\* The calls of set_input_active that setInputActive(input) makes
Forwarded(input) == <<input>>

setInputActive ==
    /\ Len(inputsPassed) < MaxInputs
    /\ \E input \in InputCodes :
          /\ inputsPassed' = Append(inputsPassed, input)
          /\ set_input_active_calls' =
                 set_input_active_calls \o Forwarded(input)
    /\ lastHandler' = "setInputActive"
    /\ alerts' = <<>>
    /\ threw' = FALSE
    /\ UNCHANGED <<form, dom, isTouchDevice, wasm_loaded, start_wasm_pc,
                   runSignal, consoleErrors, consoleLog, startGameCalls>>

\* The input handler touches nothing the other handlers read, so its call
\* sequences are explored with the form left as served: start_wasm,
\* startGame and setInputActive in every order.
NextInput ==
    \/ startGame
    \/ start_wasm
    \/ InitRejects
    \/ setInputActive

SpecInput == Init /\ [][NextInput]_vars

\* ------------------------------------------------------------------------
\* The runtime bindings (ascii_bomb_ecs_lib.d.ts) and the call of line 238
\* ------------------------------------------------------------------------

\* export function start_game(signal_server_address: string,
\*                            number_of_players: number): void;
start_game_declared ==
    <<[name |-> "signal_server_address", type |-> "string"],
      [name |-> "number_of_players", type |-> "number"]>>

\* start_game(number_of_players, room_id, matchbox_server_url,
\*            ice_server_url, turn_server_username, turn_server_credential)
\* number_of_players is the result of parseInt, the others are strings.
start_game_passed ==
    <<[name |-> "number_of_players", type |-> "number"],
      [name |-> "room_id", type |-> "string"],
      [name |-> "matchbox_server_url", type |-> "string"],
      [name |-> "ice_server_url", type |-> "string"],
      [name |-> "turn_server_username", type |-> "string"],
      [name |-> "turn_server_credential", type |-> "string"]>>

\* ------------------------------------------------------------------------
\* Vocabulary of the properties
\* ------------------------------------------------------------------------

\* The visible surface
Lobby ==
    /\ dom.buttonBox = "present"
    /\ dom.gameContainer = "hidden"
    /\ dom.errorScreen = "hidden"

Game ==
    /\ dom.buttonBox = "removed"
    /\ dom.gameContainer = "shown"
    /\ dom.errorScreen = "hidden"

ErrorView ==
    /\ dom.buttonBox = "removed"
    /\ dom.gameContainer = "removed"
    /\ dom.errorScreen = "shown"

\* The last handler was startGame and it read the form
Ran == lastHandler = "startGame" /\ ~threw

LastCall == startGameCalls[Len(startGameCalls)]

\* The field values that run of startGame read
FormRead == IF alerts # <<>> THEN form ELSE LastCall.form

FourDigits(r) ==
    /\ Len(r) = 4
    /\ \A i \in 1..4 :
          r[i] \in {"0", "1", "2", "3", "4", "5", "6", "7", "8", "9"}

Benign(e) == e.raised /\ e.hasMessage /\ includes(e.message, NotAnErrorMarker)

\* ------------------------------------------------------------------------
\* Properties
\* ------------------------------------------------------------------------

\* C1: for every integer p that startGame parses from the player-count
\* field, the player-count message is shown iff p < 2 or p > 8, and when it
\* is shown the page stays in the lobby and start_game is not called.
C1_PlayerCountCheck ==
    Ran =>
        LET p == parseInt(FormRead.numberInput)
        IN  ~p.nan =>
                /\ (alerts = <<PlayerCountMsg>>) <=> (p.val < 2 \/ p.val > 8)
                /\ alerts = <<PlayerCountMsg>> =>
                       Lobby /\ startGameCalls = <<>>

\* A count of 9 was submitted and rejected with the player-count message.
C1_Witness ==
    /\ Ran
    /\ form.numberInput = <<"9">>
    /\ alerts = <<PlayerCountMsg>>

\* C2: once the player count has passed, the room-id check succeeds iff
\* trim(r) is empty or r is exactly four decimal digits; on success
\* "quick_join" is forwarded for a blank r and r itself otherwise, so every
\* room id passed to start_game is "quick_join" or four digits.
C2_RoomIdCheck ==
    /\ (Ran /\ alerts # <<PlayerCountMsg>>) =>
           LET r == FormRead.roomID
           IN  /\ (alerts # <<RoomIdMsg>>) <=>
                      (trim(r) = <<>> \/ FourDigits(r))
               /\ alerts = <<>> =>
                      LastCall.args[2] =
                          IF trim(r) = <<>> THEN QuickJoin ELSE r
    /\ \A i \in DOMAIN startGameCalls :
           \/ startGameCalls[i].args[2] = QuickJoin
           \/ FourDigits(startGameCalls[i].args[2])

\* A room id of one space was submitted and "quick_join" was forwarded.
C2_Witness ==
    /\ Ran
    /\ alerts = <<>>
    /\ LastCall.form.roomID = <<" ">>
    /\ LastCall.args[2] = QuickJoin

\* C3: every player count passed to start_game is an integer in [2, 8],
\* whatever the player-count field held.  Stated for the calls made with
\* the runtime loaded, which are the calls that reach it.
C3_PlayerCountReachesRuntimeInRange ==
    \A i \in DOMAIN startGameCalls :
        LET n == startGameCalls[i].args[1]
        IN  startGameCalls[i].loaded =>
                ~n.nan /\ 2 <= n.val /\ n.val <= 8

\* The four checks, each on its own
CountCheckFails(f) == PlayerCountOutOfRange(parseInt(f.numberInput))

RoomIdCheckFails(f) == trim(f.roomID) # <<>> /\ ~FourDigits(f.roomID)

SignalingCheckFails(f) ==
    f.customMatchboxServerCheckbox /\ trim(f.matchboxServerURL) = <<>>

RelayCheckFails(f) ==
    f.customICEServerCheckbox /\ trim(f.iceServerURL) = <<>>

FirstFailingMsg(f) ==
    IF CountCheckFails(f) THEN <<PlayerCountMsg>>
    ELSE IF RoomIdCheckFails(f) THEN <<RoomIdMsg>>
    ELSE IF SignalingCheckFails(f) THEN <<MatchboxMsg>>
    ELSE IF RelayCheckFails(f) THEN <<IceMsg>>
    ELSE <<>>

\* C4: startGame shows at most one message, and when one or several checks
\* fail it is the message of the first failing check in the order player
\* count, room id, signaling override, relay override.
C4_FailFast ==
    Ran => /\ Len(alerts) <= 1
           /\ alerts = FirstFailingMsg(FormRead)

\* Player count, room id and relay URL are all invalid and only the
\* player-count message was shown.
C4_Witness ==
    /\ Ran
    /\ CountCheckFails(form)
    /\ RoomIdCheckFails(form)
    /\ RelayCheckFails(form)
    /\ alerts = <<PlayerCountMsg>>

\* C5: a run of startGame that rejects changes nothing but the alert it
\* shows: the form, the page (still the lobby, controls in place), both
\* console logs, the runtime state and the calls to start_game are as
\* before, so the form can be submitted again from the same state.
C5_RejectionHasNoSideEffects ==
    [][(lastHandler' = "startGame" /\ alerts' # <<>>) =>
           /\ UNCHANGED <<form, dom, isTouchDevice, wasm_loaded,
                          start_wasm_pc, runSignal, consoleErrors,
                          consoleLog, startGameCalls>>
           /\ Lobby'
           /\ dom'.controls = "present"
           /\ startGameCalls' = <<>>]_vars

\* A submission was rejected after the runtime had loaded, and the page is
\* the lobby.
C5_Witness ==
    /\ Ran
    /\ alerts # <<>>
    /\ wasm_loaded
    /\ Lobby

\* C6: in every call of start_game, an unchecked custom-signaling checkbox
\* gives "" as signaling URL and an unchecked custom-relay checkbox gives
\* "" as relay URL, username and credential, whatever the fields hold.
C6_InactiveOverrideIsEmpty ==
    \A i \in DOMAIN startGameCalls :
        LET c == startGameCalls[i]
        IN  /\ ~c.form.customMatchboxServerCheckbox => c.args[3] = <<>>
            /\ ~c.form.customICEServerCheckbox =>
                   c.args[4] = <<>> /\ c.args[5] = <<>> /\ c.args[6] = <<>>

\* start_game was called with both checkboxes unchecked while every
\* override field held text.
C6_Witness ==
    /\ startGameCalls # <<>>
    /\ ~LastCall.form.customMatchboxServerCheckbox
    /\ ~LastCall.form.customICEServerCheckbox
    /\ LastCall.form.matchboxServerURL # <<>>
    /\ LastCall.form.iceServerURL # <<>>
    /\ LastCall.form.iceServerUsername # <<>>
    /\ LastCall.form.iceServerCredential # <<>>

\* C7: when the earlier checks pass, a checked custom-signaling checkbox
\* with a URL that is empty after trimming is rejected with the Matchbox
\* message; a checked custom-relay checkbox with a relay URL that is empty
\* after trimming is rejected with the STUN/TURN message whatever username
\* and credential hold; with a non-blank relay URL, username and
\* credential are passed to start_game unchanged.
C7_ActiveOverrideNeedsUrl ==
    Ran =>
        LET f == FormRead
            earlier == {<<PlayerCountMsg>>, <<RoomIdMsg>>}
        IN  /\ ( /\ alerts \notin earlier
                 /\ f.customMatchboxServerCheckbox
                 /\ trim(f.matchboxServerURL) = <<>> )
                   => alerts = <<MatchboxMsg>>
            /\ ( /\ alerts \notin (earlier \cup {<<MatchboxMsg>>})
                 /\ f.customICEServerCheckbox
                 /\ trim(f.iceServerURL) = <<>> )
                   => alerts = <<IceMsg>>
            /\ ( /\ alerts = <<>>
                 /\ f.customICEServerCheckbox )
                   => /\ trim(f.iceServerURL) # <<>>
                      /\ LastCall.args[4] = f.iceServerURL
                      /\ LastCall.args[5] = f.iceServerUsername
                      /\ LastCall.args[6] = f.iceServerCredential

\* The relay override was on with a white-space URL and a username, and
\* the STUN/TURN message was shown.
C7_Witness ==
    /\ Ran
    /\ form.customICEServerCheckbox
    /\ form.iceServerURL = <<" ">>
    /\ form.iceServerUsername # <<>>
    /\ alerts = <<IceMsg>>

\* C8: every call of start_game passes six values in the order player
\* count, room id, signaling URL, relay URL, relay username, relay
\* credential, and this agrees in arity and order with the start_game the
\* runtime bindings declare.  Stated for the calls made with the runtime
\* loaded.
C8_CallMatchesDeclaredEntryPoint ==
    \A i \in DOMAIN startGameCalls :
        startGameCalls[i].loaded =>
        /\ Len(startGameCalls[i].args) = 6
        /\ Len(start_game_passed) = 6
        /\ Len(start_game_declared) = Len(startGameCalls[i].args)
        /\ \A j \in DOMAIN start_game_declared :
               /\ j \in DOMAIN start_game_passed
               /\ start_game_declared[j].type = start_game_passed[j].type

\* C9: every signal run() raises other than the benign one is logged and
\* ends with the error view.
C9_OtherSignalsShowErrorView ==
    (runSignal.raised /\ ~Benign(runSignal)) =>
        /\ consoleErrors # <<>>
        /\ ErrorView

\* C10: when run() raises a signal whose message contains the marker,
\* start_wasm logs nothing, removes nothing, leaves the error panel hidden
\* and leaves the page as it was.
C10_BenignSignalIsSwallowed ==
    [][(lastHandler' = "start_wasm" /\ Benign(runSignal')) =>
           /\ UNCHANGED <<form, dom, consoleErrors, consoleLog,
                          startGameCalls>>
           /\ consoleErrors' = <<>>
           /\ dom'.errorScreen = "hidden"
           /\ ~threw']_vars

\* run() raised the benign signal and start_wasm ended normally.
C10_Witness ==
    /\ lastHandler = "start_wasm"
    /\ Benign(runSignal)
    /\ start_wasm_pc = "done"

\* C11: every call of setInputActive makes exactly one call of
\* set_input_active with the same code, so the codes passed on equal the
\* codes passed in, in call order, repeated and out-of-range codes
\* included.
C11_InputsForwardedInOrder ==
    /\ set_input_active_calls = inputsPassed
    /\ Len(set_input_active_calls) = Len(inputsPassed)

\* The same code twice and then a code no button sends were passed on.
C11_Witness ==
    /\ inputsPassed = <<4, 4, 8>>
    /\ set_input_active_calls = <<4, 4, 8>>

\* The runtime lifecycle as the loader can observe it
RuntimeState ==
    IF ~wasm_loaded THEN "Loading"
    ELSE IF ~runSignal.called THEN "Ready"
    ELSE IF runSignal.raised /\ ~Benign(runSignal) THEN "Failed"
    ELSE "Running"

Rank(st) ==
    CASE st = "Loading" -> 1
      [] st = "Ready" -> 2
      [] OTHER -> 3

\* C12: the lifecycle only moves forward.  start_wasm leaves await init()
\* once and never returns to it; the loaded flag is false while init() is
\* pending and, once true, stays true; run() is called with the flag true
\* and at most once; Running and Failed are final; the error view and an
\* entry in console.error exist only after run() raised a signal that is
\* not the benign one.
C12_LifecycleMovesForward ==
    /\ [](/\ start_wasm_pc = "await_init" =>
                 ~wasm_loaded /\ ~runSignal.called
          /\ runSignal.called => wasm_loaded
          /\ (ErrorView \/ consoleErrors # <<>>) =>
                 RuntimeState = "Failed")
    /\ [][/\ wasm_loaded => wasm_loaded'
          /\ start_wasm_pc # "await_init" => start_wasm_pc' = start_wasm_pc
          /\ runSignal.called => runSignal' = runSignal
          /\ Rank(RuntimeState') >= Rank(RuntimeState)
          /\ RuntimeState \in {"Running", "Failed"} =>
                 RuntimeState' = RuntimeState
          /\ (~wasm_loaded /\ wasm_loaded') =>
                 /\ start_wasm_pc = "await_init"
                 /\ lastHandler' = "start_wasm"
                 /\ runSignal'.called]_vars

\* run() raised a signal with a message other than the benign one, and
\* the error view is shown.
C12_Witness ==
    /\ RuntimeState = "Failed"
    /\ ErrorView
    /\ consoleErrors # <<>>
    /\ start_wasm_pc = "done"

\* C13: the surface is always Lobby, Game or Error; Game stays Game and
\* Error stays Error whatever runs next, a failure of run() after
\* startGame included; Lobby becomes Game only in a run of startGame in
\* which no check failed and start_game was called, and becomes Error only
\* in start_wasm.
C13_SurfaceTransitions ==
    [][/\ Lobby' \/ Game' \/ ErrorView'
       /\ Game => Game'
       /\ ErrorView => ErrorView'
       /\ (Lobby /\ Game') =>
              /\ lastHandler' = "startGame"
              /\ alerts' = <<>>
              /\ ~threw'
              /\ FirstFailingMsg(form) = <<>>
              /\ startGameCalls' # startGameCalls
       /\ (Lobby /\ ErrorView') => lastHandler' = "start_wasm"]_vars

\* The game was started before init() resolved, then run() raised an
\* error that was logged, and the surface is still Game.
C13_Witness ==
    /\ Game
    /\ lastHandler = "start_wasm"
    /\ RuntimeState = "Failed"
    /\ consoleErrors # <<>>

\* C14: start_game is called at most once per page; once it has been
\* called, or once the error view is shown, button-box is gone, so a later
\* startGame ends on line 149 without reaching start_game.
C14_StartGameAtMostOnce ==
    /\ Len(startGameCalls) <= 1
    /\ startGameCalls # <<>> => dom.buttonBox = "removed"
    /\ ErrorView => startGameCalls = <<>>
    /\ (lastHandler = "startGame" /\ dom.buttonBox = "removed") =>
           threw \/ (alerts = <<>> /\ Len(startGameCalls) = 1)

\* startGame was invoked again after the call of start_game and ended
\* with the TypeError.
C14_Witness ==
    /\ lastHandler = "startGame"
    /\ threw
    /\ Len(startGameCalls) = 1

\* C15: every call of start_game is made with the loaded flag true and
\* with a runtime that has not failed.
C15_StartGameOnlyWhenReady ==
    \A i \in DOMAIN startGameCalls :
        /\ startGameCalls[i].loaded
        /\ RuntimeState # "Failed"

====
